---- MODULE Spec2Model ----
(***************************************************************************)
(* The playback / replay state machine of the AI Snake Agents front end    *)
(* (App.tsx): the React state cells of App, the in-flight loadNewGame      *)
(* invocations with the values their closures captured, and the interval   *)
(* timer of the auto-play effect with the lane lengths its closure         *)
(* captured.  One action per event handler or asynchronous continuation;   *)
(* every action includes the effects React runs after the batched render   *)
(* the handler causes (React 18, automatic batching).                      *)
(***************************************************************************)
EXTENDS Integers, Sequences, FiniteSets, TLC

VARIABLES
  gridSize,     \* useState<number>(5): grid dimension including the walls
  twoGrids,     \* useState<boolean>(false): second lane shown
  gameStates1,  \* useState<GameState[]>([]): lane 1 snapshot sequence
  gameStates2,  \* useState<GameState[]>([]): lane 2 snapshot sequence
  agent1, agent2, eps1, eps2, seed1, seed2,
  playing,      \* useState<boolean>(false): the clock, TRUE = Playing
  loading,      \* useState<boolean>(false): loading indicator
  speed,        \* useState<number>(1)
  tableRes,     \* useState<TableResult[]>([]): the history ledger
  timeStep,     \* useState<number>(0): the shared cursor
  serverAwake,  \* useState<boolean>(false), set by the startup effect
  ping,         \* the promise of the startup effect's pingServer() call
  timer,        \* the setInterval of the auto-play effect, or NoTimer
  scheduled,    \* intervals created by setInterval and not yet cleared
  loads,        \* loadNewGame invocations suspended at an await
  reqSize1,     \* history: gridSize lane 1's sequence was requested/recorded for
  reqSize2,     \* history: the same for lane 2 (0 while the lane is empty)
  last          \* history: the handler that ran last, its argument (lane or
                \* ledger row) and the state value its update read

vars == <<gridSize, twoGrids, gameStates1, gameStates2, agent1, agent2, eps1,
          eps2, seed1, seed2, playing, loading, speed, tableRes, timeStep,
          serverAwake, ping, timer, scheduled, loads, reqSize1, reqSize2,
          last>>

----------------------------------------------------------------------------
(* Bounds of the model *)

\* longest snapshot sequence a response carries
MaxRunLen == 2
\* cap on the ledger length (Run new game is disabled when it could be exceeded)
MaxHistory == 2
\* cap on the loadNewGame invocations suspended at the same time
MaxInFlight == 2
\* most digits typed into a seed input
MaxSeedLen == 4
\* snapshots of the long runs rendered cell by cell
LongRunLen == 10

----------------------------------------------------------------------------
(* Option lists and helpers *)

Max(a, b) == IF a >= b THEN a ELSE b

\* <option value=...> of the agent select
AgentOptions == {"a*", "apx-ql", "deep-ql"}

\* agent.includes("deep") over the agent codes
IncludesDeep(agent) == agent \in {"deep-ql"}

LightEps == {"1k", "3k", "5k"}
HeavyEps == {"50k", "75k", "100k"}

\* <option value=...> of the grid-size select
GridSizeOptions == {5, 7, 9}

\* the options the model's user selects
GridSizesTried == {5, 7}

\* nameMap
nameMap(agent) ==
  CASE agent = "a*" -> "A*"
    [] agent = "ql" -> "Q-Learning"
    [] agent = "apx-ql" -> "Approx. QL"
    [] agent = "deep-ql" -> "Deep QL"

NoTimer == [id |-> "none"]

----------------------------------------------------------------------------
(* Responses of the simulation backend                                     *)

\* One GameState {snake, fruit, won, died} of a run on a grid of dimension g
\* (walls included): after k-1 moves the snake has eaten k-1 fruits along the
\* first interior row, head first; the last snapshot is terminal.
Snapshot(g, k, n, won) ==
  [won   |-> (k = n /\ won),
   snake |-> [j \in 1..k |-> g + 1 + (k - j)],
   fruit |-> 2 * g + 1,
   died  |-> (k = n /\ ~won)]

\* data.states of a response: n snapshots
Run(g, n, won) == [k \in 1..n |-> Snapshot(g, k, n, won)]

\* the responses sendRequest(agent, eps, gridSize-2, seed) can resolve to, for
\* the request of a render whose gridSize is g: one run of each length, the
\* longest one won, the others lost
Responses(g) == {Run(g, n, n = MaxRunLen) : n \in 1..MaxRunLen}

\* a snake of len body cells, head first, whose tail is on cell 11
Body(len) == [j \in 1..len |-> 11 + (len - j)]

\* data.states of a response of n snapshots: the snake grows by one cell per
\* move until it has len cells, and the last snapshot carries the flags won
\* and died
RunEnding(g, n, len, won, died) ==
  [k \in 1..n |-> [won   |-> (k = n /\ won),
                   snake |-> Body(IF k < len THEN k ELSE len),
                   fruit |-> g + 1,
                   died  |-> (k = n /\ died)]]

\* responses whose length, final snake and final flags vary independently
\* (a run ends won, died, or neither)
RunsTried(g) ==
  {RunEnding(g, c[1], c[2], c[3], c[4]) :
     c \in {d \in (1..MaxRunLen) \X (1..MaxRunLen) \X BOOLEAN \X BOOLEAN :
              d[2] <= d[1] /\ ~(d[3] /\ d[4])}}

\* responses of (snapshots, final body cells): 30 moves for 3 fruits, 19 and
\* 51 moves for 16 fruits (quotients that end in 5 at the fourth decimal), a
\* move without a fruit per fruit eaten, and runs that end without a fruit
AveragedRuns(g) ==
  {RunEnding(g, c[1], c[2], FALSE, TRUE) :
     c \in {<<31, 4>>, <<20, 17>>, <<52, 17>>, <<3, 2>>, <<3, 1>>, <<1, 1>>}}

\* the cell (walls included in the numbering) at position p of a path that
\* sweeps the interior of a grid of dimension g row by row
PathCell(g, p) ==
  LET w == g - 2
      r == p \div w
      c == p % w
  IN  (r + 1) * g + (IF r % 2 = 0 THEN c ELSE w - 1 - c) + 1

\* data.states of a long game on a grid of dimension g: the snake starts on
\* the first interior cell and eats the fruit on the next cell of the path
\* with every move, until one interior cell is left or LongRunLen snapshots
\* are taken; it dies on its last move
Grown(g) ==
  LET w == g - 2
      n == IF LongRunLen < w * w - 1 THEN LongRunLen ELSE w * w - 1
  IN  [k \in 1..n |-> [won   |-> FALSE,
                       snake |-> [j \in 1..k |-> PathCell(g, k - j)],
                       fruit |-> PathCell(g, k),
                       died  |-> k = n]]

----------------------------------------------------------------------------
(* ModelSelect                                                             *)

\* The default-episode effect, run with the props of the render after which
\* it fires: the eps it leaves.
EpsEffect(agent, eps) ==
  IF agent = "a*" THEN "N/A"
  ELSE IF IncludesDeep(agent) /\ eps \notin LightEps THEN "1k"
  ELSE IF eps \notin HeavyEps THEN "50k"
  ELSE eps

\* the <option>s the episode select renders for an agent (none for a*)
EpsOptions(agent) ==
  IF agent = "a*" THEN {}
  ELSE IF IncludesDeep(agent) THEN LightEps ELSE HeavyEps

Digits == {"0", "1", "2", "3", "4", "5", "6", "7", "8", "9"}

DigitValue(c) ==
  CASE c = "0" -> 0 [] c = "1" -> 1 [] c = "2" -> 2 [] c = "3" -> 3
    [] c = "4" -> 4 [] c = "5" -> 5 [] c = "6" -> 6 [] c = "7" -> 7
    [] c = "8" -> 8 [] c = "9" -> 9

\* Number(value) of a string of decimal digits (a sequence of characters)
RECURSIVE NumberOf(_)
NumberOf(value) ==
  IF value = <<>> THEN 0
  ELSE 10 * NumberOf(SubSeq(value, 1, Len(value) - 1)) + DigitValue(value[Len(value)])

\* /^\d+$/.test(value)
AllDigits(value) == Len(value) >= 1 /\ \A i \in 1..Len(value) : value[i] \in Digits

\* onChange without its n > 999 check
SeedOnChange_NoRange(seed, value) ==
  IF value = <<>> THEN <<>>
  ELSE IF ~AllDigits(value) THEN seed
  ELSE IF Len(value) > 1 /\ value[1] = "0" THEN seed
  ELSE value

\* ModelSelect.onChange: the seed after a change event carrying `value`
SeedOnChange(seed, value) ==
  IF value = <<>> THEN <<>>
  ELSE IF ~AllDigits(value) THEN seed
  ELSE IF Len(value) > 1 /\ value[1] = "0" THEN seed
  ELSE IF NumberOf(value) > 999 THEN seed
  ELSE value

\* e.target.value of the change events of the seed input tried by the model
SeedCandidates == {<<>>, <<"7">>, <<"0", "7">>, <<"1", "0", "0", "0">>, <<"7", "x">>}

\* digits typed into the seed input
SeedDigits == {"0", "1", "9"}

\* every string of at most MaxSeedLen of these digits
DigitStrings == UNION {[1..n -> SeedDigits] : n \in 0..MaxSeedLen}

\* e.target.value: each of these strings, and each with a minus sign (which
\* the handler is written to block) in front
SeedInputs == DigitStrings \cup {<<"-">> \o value : value \in DigitStrings}

----------------------------------------------------------------------------
(* App                                                                     *)

\* maxStep of the current render
maxStep == Max(Len(gameStates1), Len(gameStates2)) - 1

canStepForward == timeStep < maxStep

\* the freeze with > in place of >=
effectiveStep_Strict(t, gameStates) ==
  IF t > Len(gameStates) THEN Len(gameStates) - 1 ELSE t

\* Grid: the snapshot index a lane is rendered at
effectiveStep(t, gameStates) ==
  IF t >= Len(gameStates) THEN Len(gameStates) - 1 ELSE t

\* Grid: the indices (from 0) of gameStates that cellClass, generateGrid and
\* fruitCount read in a render; each read is guarded by gameStates.length
GridReads(t, gameStates) ==
  IF Len(gameStates) = 0 THEN {} ELSE {effectiveStep(t, gameStates)}

\* Grid.cellClass: isWall
isWall(g, i) ==
  LET row == i \div g
      col == i % g
  IN  row = 0 \/ row = g - 1 \/ col = 0 \/ col = g - 1

\* Grid.cellClass of cell i (the two floor colours are one class here)
cellClass(g, t, gameStates, i) ==
  IF isWall(g, i) THEN "wall"
  ELSE IF Len(gameStates) > 0
          /\ i = gameStates[effectiveStep(t, gameStates) + 1].fruit THEN "fruit"
  ELSE "floor"

\* Array.prototype.indexOf over a list of cells: the first index (from 0)
\* holding i, or -1
indexOf(list, i) ==
  IF \E j \in 1..Len(list) : list[j] = i
  THEN (CHOOSE j \in 1..Len(list) :
          list[j] = i /\ \A h \in 1..j - 1 : list[h] # i) - 1
  ELSE -1

\* generateGrid: snakeIndex of cell i
snakeIndex(t, gameStates, i) ==
  IF Len(gameStates) = 0 THEN -1
  ELSE indexOf(gameStates[effectiveStep(t, gameStates) + 1].snake, i)

\* generateGrid: maxSnake, the length of snakeColors
maxSnake(g) == (g - 2) * (g - 2)

\* generateGrid: the inline style of cell i.  snakeColors has maxSnake
\* entries; an index past its end reads undefined, and a style whose
\* backgroundColor is undefined sets no colour
cellStyle(g, t, gameStates, i) ==
  IF snakeIndex(t, gameStates, i) # -1
     /\ snakeIndex(t, gameStates, i) < maxSnake(g)
  THEN "snake"
  ELSE "none"

\* an effect that returns no cleanup: nothing is cleared
cleanup_Missing == scheduled

\* clearInterval(id) of the cleanup the previous run of the effect returned
\* (none when that run returned early): the intervals left scheduled
cleanup == IF timer = NoTimer THEN scheduled ELSE scheduled - 1

\* the effect with the dependency array [speed]: a change of playing alone
\* neither clears the interval nor runs the body
AutoPlayEffect_SpeedDepOnly(newPlaying, newSpeed, gs1, gs2) ==
  IF newSpeed = speed
  THEN /\ playing' = newPlaying
       /\ timer' = timer
       /\ scheduled' = scheduled
  ELSE IF ~newPlaying \/ Len(gs1) = 0
  THEN /\ playing' = FALSE
       /\ timer' = NoTimer
       /\ scheduled' = cleanup
  ELSE /\ playing' = TRUE
       /\ timer' = [id |-> "interval", len1 |-> Len(gs1), len2 |-> Len(gs2),
                    intervalMs |-> 500 \div newSpeed]
       /\ scheduled' = cleanup + 1

\* The auto-play effect (deps [playing, speed]) after a render that commits
\* newPlaying/newSpeed with lanes gs1/gs2.  When a dependency changed, the
\* cleanup of the previous run clears its interval and the effect body runs;
\* its setPlaying(false) re-renders and runs the body once more, which
\* returns early.
AutoPlayEffect(newPlaying, newSpeed, gs1, gs2) ==
  IF newPlaying = playing /\ newSpeed = speed
  THEN /\ playing' = newPlaying
       /\ timer' = timer
       /\ scheduled' = scheduled
  ELSE IF ~newPlaying \/ Len(gs1) = 0
  THEN /\ playing' = FALSE
       /\ timer' = NoTimer
       /\ scheduled' = cleanup
  ELSE /\ playing' = TRUE
       /\ timer' = [id |-> "interval", len1 |-> Len(gs1), len2 |-> Len(gs2),
                    intervalMs |-> 500 \div newSpeed]
       /\ scheduled' = cleanup + 1

\* the quotient without the 1e-9 in the divisor, for fruitCount >= 1:
\* (endIndex / fruitCount).toFixed(3), which rounds an exact tie upwards
avgMove_NoFloor(endIndex, fruitCount) ==
  IF fruitCount = 0 THEN [e9 |-> endIndex, milli |-> 0]
  ELSE [e9 |-> 0,
        milli |-> (2000 * endIndex + fruitCount) \div (2 * fruitCount)]

\* (endIndex / (fruitCount + 1e-9)).toFixed(3), in thousandths.  For
\* fruitCount >= 1 the 1e-9 only decides exact ties (downwards); for
\* fruitCount = 0 the quotient is endIndex * 1e9, kept as [e9 |-> endIndex].
avgMove(endIndex, fruitCount) ==
  IF fruitCount = 0 THEN [e9 |-> endIndex, milli |-> 0]
  ELSE [e9 |-> 0,
        milli |-> (2000 * endIndex + fruitCount - 1) \div (2 * fruitCount)]

\* createTableResult reading the first snapshot instead of data[endIndex]
createTableResult_FirstSnapshot(agent, eps, endIndex, data, size) ==
  [gridSize    |-> <<size - 2, "x", size - 2>>,
   agent       |-> nameMap(agent),
   avgMove     |-> avgMove(endIndex, Len(data[1].snake) - 1),
   fruitCount  |-> Len(data[1].snake) - 1,
   train       |-> eps,
   moveCount   |-> endIndex,
   finalLength |-> Len(data[1].snake),
   outcome     |-> IF data[1].won THEN "Won" ELSE "Lost",
   replay      |-> data,
   agentCode   |-> agent,
   replaySize  |-> size]

\* createTableResult reading the gridSize of the latest render instead of the
\* one its caller's closure holds
createTableResult_LatestSize(agent, eps, endIndex, data, size) ==
  [gridSize    |-> <<gridSize - 2, "x", gridSize - 2>>,
   agent       |-> nameMap(agent),
   avgMove     |-> avgMove(endIndex, Len(data[endIndex + 1].snake) - 1),
   fruitCount  |-> Len(data[endIndex + 1].snake) - 1,
   train       |-> eps,
   moveCount   |-> endIndex,
   finalLength |-> Len(data[endIndex + 1].snake),
   outcome     |-> IF data[endIndex + 1].won THEN "Won" ELSE "Lost",
   replay      |-> data,
   agentCode   |-> agent,
   replaySize  |-> gridSize]

\* createTableResult, with the gridSize of the render whose closure calls it
createTableResult(agent, eps, endIndex, data, size) ==
  [gridSize    |-> <<size - 2, "x", size - 2>>,
   agent       |-> nameMap(agent),
   avgMove     |-> avgMove(endIndex, Len(data[endIndex + 1].snake) - 1),
   fruitCount  |-> Len(data[endIndex + 1].snake) - 1,
   train       |-> eps,
   moveCount   |-> endIndex,
   finalLength |-> Len(data[endIndex + 1].snake),
   outcome     |-> IF data[endIndex + 1].won THEN "Won" ELSE "Lost",
   replay      |-> data,
   agentCode   |-> agent,
   replaySize  |-> size]

\* an updater that puts the new row after the existing rows
prepend_AtEnd(result, t) == t \o <<result>>

\* the updater t => [result, ...t] of setTableRes
prepend(result, t) == <<result>> \o t

RemoveAt(s, i) == SubSeq(s, 1, i - 1) \o SubSeq(s, i + 1, Len(s))

\* ledger entries the suspended invocations will still prepend
RECURSIVE PendingEntries(_)
PendingEntries(ls) ==
  IF ls = <<>> THEN 0
  ELSE (IF ls[1].stage = 1 /\ ls[1].twoGrids THEN 2 ELSE 1) + PendingEntries(Tail(ls))

Init ==
  /\ gridSize = 5
  /\ twoGrids = FALSE
  /\ gameStates1 = <<>>
  /\ gameStates2 = <<>>
  /\ agent1 = "a*"
  /\ agent2 = "a*"
  /\ eps1 = "N/A"
  /\ eps2 = "N/A"
  /\ seed1 = <<>>
  /\ seed2 = <<>>
  /\ playing = FALSE
  /\ loading = FALSE
  /\ speed = 1
  /\ tableRes = <<>>
  /\ timeStep = 0
  /\ serverAwake = TRUE
  /\ ping = "pending"
  /\ timer = NoTimer
  /\ scheduled = 0
  /\ loads = <<>>
  /\ reqSize1 = 0
  /\ reqSize2 = 0
  /\ last = [twoGrids |-> FALSE, op |-> "mount", arg |-> 0, read |-> 0]

\* the value of `last` after handler op ran with argument arg (the lane, the
\* ledger row, 1 for a second response whose invocation started before a
\* toggle); read is what the handler read: prev of a setTimeStep updater, the
\* gridSize a restore compares with, playing before a load completes, the
\* seed and the candidate of a change event, playing and the cursor at a
\* speed change, the ledger entries a failed invocation had prepended, 0 for
\* the other handlers; twoGrids is the twoGrids of the render the handler ran in
Did(op, arg, read) ==
  [twoGrids |-> twoGrids, op |-> op, arg |-> arg, read |-> read]

\* resetBoard without its setPlaying(false)
resetBoard_KeepsPlaying ==
  /\ AutoPlayEffect(playing, speed, <<>>, <<>>)
  /\ loading' = FALSE
  /\ gameStates1' = <<>>
  /\ gameStates2' = <<>>
  /\ timeStep' = 0
  /\ reqSize1' = 0
  /\ reqSize2' = 0

\* resetBoard, with the auto-play effect of the render it causes
resetBoard ==
  /\ AutoPlayEffect(FALSE, speed, <<>>, <<>>)
  /\ loading' = FALSE
  /\ gameStates1' = <<>>
  /\ gameStates2' = <<>>
  /\ timeStep' = 0
  /\ reqSize1' = 0
  /\ reqSize2' = 0

----------------------------------------------------------------------------
(* Startup ping                                                            *)

\* The startup effect has run when the first event is handled: it called
\* ping() without awaiting it and then setServerAwake(true) (Init).  The fetch
\* of pingServer settles later; nothing is attached to the promise of ping().

\* the fetch resolves (the response body is not read)
PingResolves ==
  /\ ping = "pending"
  /\ ping' = "resolved"
  /\ UNCHANGED <<gridSize, twoGrids, gameStates1, gameStates2, agent1, agent2,
                 eps1, eps2, seed1, seed2, playing, loading, speed, tableRes,
                 timeStep, serverAwake, timer, scheduled, loads, reqSize1,
                 reqSize2, last>>

\* the fetch rejects (backend unreachable): an unhandled rejection
PingRejects ==
  /\ ping = "pending"
  /\ ping' = "rejected"
  /\ UNCHANGED <<gridSize, twoGrids, gameStates1, gameStates2, agent1, agent2,
                 eps1, eps2, seed1, seed2, playing, loading, speed, tableRes,
                 timeStep, serverAwake, timer, scheduled, loads, reqSize1,
                 reqSize2, last>>

----------------------------------------------------------------------------
(* Configuration controls                                                  *)

\* onChange of the agent select of a lane's ModelSelect: resetBoard();
\* setAgent(value); then the default-episode effect (deps [agent])
AgentChange(lane, value) ==
  /\ lane = 1 \/ twoGrids
  /\ value # (IF lane = 1 THEN agent1 ELSE agent2)
  /\ resetBoard
  /\ IF lane = 1
     THEN /\ agent1' = value
          /\ eps1' = EpsEffect(value, eps1)
          /\ UNCHANGED <<agent2, eps2>>
     ELSE /\ agent2' = value
          /\ eps2' = EpsEffect(value, eps2)
          /\ UNCHANGED <<agent1, eps1>>
  /\ last' = Did("agent", lane, 0)
  /\ UNCHANGED <<gridSize, twoGrids, seed1, seed2, speed, tableRes,
                 serverAwake, ping, loads>>

\* onChange of the episode select (rendered unless the agent is a*):
\* resetBoard(); setEps(value)
EpsChange(lane, value) ==
  /\ lane = 1 \/ twoGrids
  /\ value \in EpsOptions(IF lane = 1 THEN agent1 ELSE agent2)
  /\ value # (IF lane = 1 THEN eps1 ELSE eps2)
  /\ resetBoard
  /\ IF lane = 1
     THEN eps1' = value /\ eps2' = eps2
     ELSE eps2' = value /\ eps1' = eps1
  /\ last' = Did("eps", lane, 0)
  /\ UNCHANGED <<gridSize, twoGrids, agent1, agent2, seed1, seed2, speed,
                 tableRes, serverAwake, ping, loads>>

\* onChange of the seed input
SeedChange(lane, value) ==
  /\ lane = 1 \/ twoGrids
  /\ IF lane = 1
     THEN seed1' = SeedOnChange(seed1, value) /\ seed2' = seed2
     ELSE seed2' = SeedOnChange(seed2, value) /\ seed1' = seed1
  /\ last' = Did("seed", lane, [value |-> value,
                                seed  |-> IF lane = 1 THEN seed1 ELSE seed2])
  /\ UNCHANGED <<gridSize, twoGrids, gameStates1, gameStates2, agent1, agent2,
                 eps1, eps2, playing, loading, speed, tableRes, timeStep,

                 serverAwake, ping, timer, scheduled, loads, reqSize1, reqSize2>>

\* a grid-size change that also abandons the suspended invocations
GridSizeChange_Cancels(value) ==
  /\ value # gridSize
  /\ resetBoard
  /\ gridSize' = value
  /\ loads' = <<>>
  /\ last' = Did("gridSize", 0, 0)
  /\ UNCHANGED <<twoGrids, agent1, agent2, eps1, eps2, seed1, seed2, speed,
                 tableRes, serverAwake, ping>>

\* onChange of the grid-size select: resetBoard(); setGridSize(parseInt(value))
GridSizeChange(value) ==
  /\ value # gridSize
  /\ resetBoard
  /\ gridSize' = value
  /\ last' = Did("gridSize", 0, 0)
  /\ UNCHANGED <<twoGrids, agent1, agent2, eps1, eps2, seed1, seed2, speed,
                 tableRes, serverAwake, ping, loads>>

\* Add/Remove Grid: resetBoard(); setTwoGrids(t => !t).  Adding the grid mounts
\* the second ModelSelect, whose default-episode effect runs on mount.  The
\* suspended invocations are left as they are (history: each two-lane
\* invocation is marked as started before a toggle).
ToggleGrid ==
  /\ resetBoard
  /\ twoGrids' = ~twoGrids
  /\ eps2' = IF ~twoGrids THEN EpsEffect(agent2, eps2) ELSE eps2
  /\ loads' = [k \in 1..Len(loads) |->
                [loads[k] EXCEPT !.toggled = loads[k].twoGrids]]
  /\ last' = Did("toggleGrid", 0, 0)
  /\ UNCHANGED <<gridSize, agent1, agent2, eps1, seed1, seed2, speed, tableRes,
                 serverAwake, ping>>

----------------------------------------------------------------------------
(* Player controls                                                         *)

\* the updater of Back: t => t > 0 ? t - 1 : t
stepBack(t) == IF t > 0 THEN t - 1 ELSE t

\* the updater of Forward without its bound
stepForward_Unclamped(t) == t + 1

\* the updater of Forward: t => t < maxStep ? t + 1 : t
stepForward(t) == IF t < maxStep THEN t + 1 ELSE t

\* Back: setPlaying(false); setTimeStep(t => t > 0 ? t - 1 : t)
Back ==
  /\ AutoPlayEffect(FALSE, speed, gameStates1, gameStates2)
  /\ timeStep' = stepBack(timeStep)
  /\ last' = Did("back", 0, timeStep)
  /\ UNCHANGED <<gridSize, twoGrids, gameStates1, gameStates2, agent1, agent2,
                 eps1, eps2, seed1, seed2, loading, speed, tableRes,
                 serverAwake, ping, loads, reqSize1, reqSize2>>

\* Forward: setPlaying(false); setTimeStep(t => t < maxStep ? t + 1 : t)
Forward ==
  /\ AutoPlayEffect(FALSE, speed, gameStates1, gameStates2)
  /\ timeStep' = stepForward(timeStep)
  /\ last' = Did("forward", 0, timeStep)
  /\ UNCHANGED <<gridSize, twoGrids, gameStates1, gameStates2, agent1, agent2,
                 eps1, eps2, seed1, seed2, loading, speed, tableRes,
                 serverAwake, ping, loads, reqSize1, reqSize2>>

\* Play/Pause, rendered while canStepForward: setPlaying(p => !p)
PlayPause ==
  /\ canStepForward
  /\ AutoPlayEffect(~playing, speed, gameStates1, gameStates2)
  /\ last' = Did(IF playing THEN "pause" ELSE "play", 0, 0)
  /\ UNCHANGED <<gridSize, twoGrids, gameStates1, gameStates2, agent1, agent2,
                 eps1, eps2, seed1, seed2, loading, speed, tableRes, timeStep,
                 serverAwake, ping, loads, reqSize1, reqSize2>>

\* Restart, rendered instead of Play/Pause: setPlaying(false); setTimeStep(0)
Restart ==
  /\ ~canStepForward
  /\ AutoPlayEffect(FALSE, speed, gameStates1, gameStates2)
  /\ timeStep' = 0
  /\ last' = Did("restart", 0, 0)
  /\ UNCHANGED <<gridSize, twoGrids, gameStates1, gameStates2, agent1, agent2,
                 eps1, eps2, seed1, seed2, loading, speed, tableRes,
                 serverAwake, ping, loads, reqSize1, reqSize2>>

\* Speed: setSpeed(s => s === 4 ? 1 : s * 2)
SpeedChange ==
  /\ speed' = IF speed = 4 THEN 1 ELSE speed * 2
  /\ AutoPlayEffect(playing, IF speed = 4 THEN 1 ELSE speed * 2,
                    gameStates1, gameStates2)
  /\ last' = Did("speed", 0, [playing |-> playing, timeStep |-> timeStep])
  /\ UNCHANGED <<gridSize, twoGrids, gameStates1, gameStates2, agent1, agent2,
                 eps1, eps2, seed1, seed2, loading, tableRes, timeStep,
                 serverAwake, ping, loads, reqSize1, reqSize2>>

\* an interval callback without the setPlaying(false) at the ceiling
Tick_NeverStops ==
  /\ timer # NoTimer
  /\ timeStep' = IF timeStep >= Max(timer.len1, timer.len2) - 1
                 THEN timeStep ELSE timeStep + 1
  /\ last' = Did("tick", 0, timeStep)
  /\ UNCHANGED <<gridSize, twoGrids, gameStates1, gameStates2, agent1, agent2,
                 eps1, eps2, seed1, seed2, playing, loading, speed, tableRes,

                 serverAwake, ping, timer, scheduled, loads, reqSize1, reqSize2>>

\* The interval callback: setTimeStep(prev => ...) with the lanes of the
\* render in which the effect created the interval
Tick ==
  /\ timer # NoTimer
  /\ IF timeStep >= Max(timer.len1, timer.len2) - 1
     THEN /\ AutoPlayEffect(FALSE, speed, gameStates1, gameStates2)
          /\ timeStep' = timeStep
     ELSE /\ timeStep' = timeStep + 1
          /\ UNCHANGED <<playing, timer, scheduled>>
  /\ last' = Did("tick", 0, timeStep)
  /\ UNCHANGED <<gridSize, twoGrids, gameStates1, gameStates2, agent1, agent2,
                 eps1, eps2, seed1, seed2, loading, speed, tableRes,
                 serverAwake, ping, loads, reqSize1, reqSize2>>

----------------------------------------------------------------------------
(* loadNewGame                                                             *)

\* Run new game: setLoading(true) and the first sendRequest; the invocation
\* suspends holding the state of the render it was created in
RunNewGame ==
  /\ Len(loads) < MaxInFlight
  /\ Len(tableRes) + PendingEntries(loads) + (IF twoGrids THEN 2 ELSE 1)
       <= MaxHistory
  /\ loading' = TRUE
  /\ loads' = Append(loads,
       [gridSize |-> gridSize, twoGrids |-> twoGrids,
        agent1 |-> agent1, agent2 |-> agent2, eps1 |-> eps1, eps2 |-> eps2,
        seed1 |-> seed1, seed2 |-> seed2, stage |-> 1, toggled |-> FALSE,
        data1 |-> <<>>])
  /\ last' = Did("run", 0, 0)
  /\ UNCHANGED <<gridSize, twoGrids, gameStates1, gameStates2, agent1, agent2,
                 eps1, eps2, seed1, seed2, playing, speed, tableRes, timeStep,
                 serverAwake, ping, timer, scheduled, reqSize1, reqSize2>>

\* The first request of invocation i, sent for a grid of dimension g, resolves
\* to data1
Response1(i, g, data1) ==
  /\ i \in 1..Len(loads)
  /\ loads[i].stage = 1
  /\ g = loads[i].gridSize
  /\ tableRes' = prepend(createTableResult(loads[i].agent1, loads[i].eps1,
                            Len(data1) - 1, data1, loads[i].gridSize), tableRes)
  /\ IF loads[i].twoGrids
     THEN /\ loads' = [loads EXCEPT ![i].stage = 2, ![i].data1 = data1]
          /\ UNCHANGED <<gameStates1, loading, timeStep, playing, timer,
                         scheduled, reqSize1>>
     ELSE /\ loads' = RemoveAt(loads, i)
          /\ gameStates1' = data1
          /\ reqSize1' = loads[i].gridSize
          /\ loading' = FALSE
          /\ timeStep' = 0
          /\ AutoPlayEffect(TRUE, speed, data1, gameStates2)
  /\ last' = Did("response1", 0, IF loads[i].twoGrids THEN 0 ELSE playing)
  /\ UNCHANGED <<gridSize, twoGrids, gameStates2, agent1, agent2, eps1, eps2,
                 seed1, seed2, speed, serverAwake, ping, reqSize2>>

\* the end of a two-lane load without its setGameStates1(data1)
Response2_Lane2Only(i, g, data2) ==
  /\ i \in 1..Len(loads)
  /\ loads[i].stage = 2
  /\ g = loads[i].gridSize
  /\ tableRes' = prepend(createTableResult(loads[i].agent2, loads[i].eps2,
                            Len(data2) - 1, data2, loads[i].gridSize), tableRes)
  /\ loads' = RemoveAt(loads, i)
  /\ gameStates2' = data2
  /\ gameStates1' = gameStates1
  /\ reqSize2' = loads[i].gridSize
  /\ reqSize1' = reqSize1
  /\ loading' = FALSE
  /\ timeStep' = 0
  /\ AutoPlayEffect(TRUE, speed, gameStates1, data2)
  /\ last' = Did("response2", IF loads[i].toggled THEN 1 ELSE 0, playing)
  /\ UNCHANGED <<gridSize, twoGrids, agent1, agent2, eps1, eps2, seed1, seed2,
                 speed, serverAwake, ping>>

\* The second request of invocation i, sent for a grid of dimension g,
\* resolves to data2
Response2(i, g, data2) ==
  /\ i \in 1..Len(loads)
  /\ loads[i].stage = 2
  /\ g = loads[i].gridSize
  /\ tableRes' = prepend(createTableResult(loads[i].agent2, loads[i].eps2,
                            Len(data2) - 1, data2, loads[i].gridSize), tableRes)
  /\ loads' = RemoveAt(loads, i)
  /\ gameStates2' = data2
  /\ gameStates1' = loads[i].data1
  /\ reqSize2' = loads[i].gridSize
  /\ reqSize1' = loads[i].gridSize
  /\ loading' = FALSE
  /\ timeStep' = 0
  /\ AutoPlayEffect(TRUE, speed, loads[i].data1, data2)
  /\ last' = Did("response2", IF loads[i].toggled THEN 1 ELSE 0, playing)
  /\ UNCHANGED <<gridSize, twoGrids, agent1, agent2, eps1, eps2, seed1, seed2,
                 speed, serverAwake, ping>>

\* The outstanding request of invocation i rejects, or its response carries
\* no snapshot (data.states missing or empty): the invocation throws at its
\* await or at data[endIndex] and nothing after it runs
LoadFails(i) ==
  /\ i \in 1..Len(loads)
  /\ loads' = RemoveAt(loads, i)
  /\ last' = Did("loadFails", 0, IF loads[i].stage = 2 THEN 1 ELSE 0)
  /\ UNCHANGED <<gridSize, twoGrids, gameStates1, gameStates2, agent1, agent2,
                 eps1, eps2, seed1, seed2, playing, loading, speed, tableRes,
                 timeStep,
                 serverAwake, ping, timer, scheduled, reqSize1, reqSize2>>

----------------------------------------------------------------------------
(* History table                                                           *)

\* a restore that never overwrites the other lane
otherLane_Kept(res, other) == other

\* a restore that overwrites the other lane whatever the grid size
otherLane_Overwritten(res, other) == res.replay

\* if (gridSize !== res.replaySize) setGameStatesN(res.replay): the other
\* lane after a restore of res
otherLane(res, other) ==
  IF gridSize # res.replaySize THEN res.replay ELSE other

\* Grid 1 button of row i
RestoreGrid1(i) ==
  /\ i \in 1..Len(tableRes)
  /\ AutoPlayEffect(FALSE, speed, tableRes[i].replay,
                    otherLane(tableRes[i], gameStates2))
  /\ gameStates2' = otherLane(tableRes[i], gameStates2)
  /\ reqSize2' = IF gridSize # tableRes[i].replaySize
                 THEN tableRes[i].replaySize ELSE reqSize2
  /\ gridSize' = tableRes[i].replaySize
  /\ agent1' = tableRes[i].agentCode
  /\ eps1' = IF tableRes[i].agentCode # agent1
             THEN EpsEffect(tableRes[i].agentCode, tableRes[i].train)
             ELSE tableRes[i].train
  /\ gameStates1' = tableRes[i].replay
  /\ reqSize1' = tableRes[i].replaySize
  /\ timeStep' = 0
  /\ last' = Did("restore1", i, gridSize)
  /\ UNCHANGED <<twoGrids, agent2, eps2, seed1, seed2, loading, speed,
                 tableRes, serverAwake, ping, loads>>

\* the Grid 2 button without its setTwoGrids(true)
RestoreGrid2_NoActivate(i) ==
  /\ i \in 1..Len(tableRes)
  /\ AutoPlayEffect(FALSE, speed, otherLane(tableRes[i], gameStates1),
                    tableRes[i].replay)
  /\ gameStates1' = otherLane(tableRes[i], gameStates1)
  /\ reqSize1' = IF gridSize # tableRes[i].replaySize
                 THEN tableRes[i].replaySize ELSE reqSize1
  /\ gridSize' = tableRes[i].replaySize
  /\ twoGrids' = twoGrids
  /\ agent2' = tableRes[i].agentCode
  /\ eps2' = tableRes[i].train
  /\ gameStates2' = tableRes[i].replay
  /\ reqSize2' = tableRes[i].replaySize
  /\ timeStep' = 0
  /\ last' = Did("restore2", i, gridSize)
  /\ UNCHANGED <<agent1, eps1, seed1, seed2, loading, speed, tableRes,
                 serverAwake, ping, loads>>

\* Grid 2 button of row i; setTwoGrids(true) mounts the second ModelSelect
\* when the second grid was off
RestoreGrid2(i) ==
  /\ i \in 1..Len(tableRes)
  /\ AutoPlayEffect(FALSE, speed, otherLane(tableRes[i], gameStates1),
                    tableRes[i].replay)
  /\ gameStates1' = otherLane(tableRes[i], gameStates1)
  /\ reqSize1' = IF gridSize # tableRes[i].replaySize
                 THEN tableRes[i].replaySize ELSE reqSize1
  /\ gridSize' = tableRes[i].replaySize
  /\ twoGrids' = TRUE
  /\ agent2' = tableRes[i].agentCode
  /\ eps2' = IF tableRes[i].agentCode # agent2 \/ ~twoGrids
             THEN EpsEffect(tableRes[i].agentCode, tableRes[i].train)
             ELSE tableRes[i].train
  /\ gameStates2' = tableRes[i].replay
  /\ reqSize2' = tableRes[i].replaySize
  /\ timeStep' = 0
  /\ last' = Did("restore2", i, gridSize)
  /\ UNCHANGED <<agent1, eps1, seed1, seed2, loading, speed, tableRes,
                 serverAwake, ping, loads>>

----------------------------------------------------------------------------

\* the configuration controls of the two ModelSelects
ConfigControls ==
  \/ \E lane \in {1, 2}, value \in AgentOptions : AgentChange(lane, value)
  \/ \E lane \in {1, 2}, value \in LightEps \cup HeavyEps : EpsChange(lane, value)

SeedControls ==
  \E lane \in {1, 2}, value \in SeedCandidates : SeedChange(lane, value)

BoardControls ==
  \/ \E value \in GridSizesTried : GridSizeChange(value)
  \/ ToggleGrid

PlayerControls ==
  \/ Back
  \/ Forward
  \/ PlayPause
  \/ Restart
  \/ SpeedChange
  \/ Tick

Loading ==
  \/ RunNewGame
  \/ \E i \in 1..MaxInFlight, g \in GridSizeOptions : \E data \in Responses(g) :
       Response1(i, g, data)
  \/ \E i \in 1..MaxInFlight, g \in GridSizeOptions : \E data \in Responses(g) :
       Response2(i, g, data)
  \/ \E i \in 1..MaxInFlight : LoadFails(i)

Restoring ==
  \/ \E i \in 1..MaxHistory : RestoreGrid1(i)
  \/ \E i \in 1..MaxHistory : RestoreGrid2(i)

Pinging ==
  \/ PingResolves
  \/ PingRejects

\* every event of the program
Next ==
  \/ ConfigControls
  \/ SeedControls
  \/ BoardControls
  \/ PlayerControls
  \/ Loading
  \/ Restoring
  \/ Pinging

Spec == Init /\ [][Next]_vars

\* Spec has too many states to enumerate: the claims are checked under the
\* specifications below, whose behaviours are behaviours of Spec.

\* The replay store, the playback clock and the ledger under every event but
\* the agent, episode and seed inputs (both lanes keep the initial a* agent)
NextPlay ==
  \/ BoardControls
  \/ PlayerControls
  \/ Loading
  \/ Restoring

SpecPlay == Init /\ [][NextPlay]_vars

\* The selectors of lane 1 with loading and restoring into grid 1, the second
\* grid off and the grid size as mounted
NextConfig ==
  \/ ConfigControls
  \/ SeedControls
  \/ RunNewGame
  \/ \E i \in 1..MaxInFlight, g \in GridSizeOptions : \E data \in Responses(g) :
       Response1(i, g, data)
  \/ \E i \in 1..MaxInFlight : LoadFails(i)
  \/ \E i \in 1..MaxHistory : RestoreGrid1(i)

SpecConfig == Init /\ [][NextConfig]_vars

\* The agent and episode selects of both lanes and the Add/Remove Grid button,
\* which mounts and unmounts the ModelSelect of lane 2
NextSelect ==
  \/ ConfigControls
  \/ ToggleGrid

SpecSelect == Init /\ [][NextSelect]_vars

\* The seed input of lane 1 (and of lane 2 once the second grid is added)
\* under every string of SeedInputs
NextSeed ==
  \/ \E lane \in {1, 2}, value \in SeedInputs : SeedChange(lane, value)

SpecSeed == Init /\ [][NextSeed]_vars

\* Loads of one or two lanes at the grid size as mounted, with responses
\* whose length, final snake and final flags vary independently
NextRecord ==
  \/ ToggleGrid
  \/ RunNewGame
  \/ \E i \in 1..MaxInFlight, g \in GridSizeOptions : \E data \in RunsTried(g) :
       Response1(i, g, data)
  \/ \E i \in 1..MaxInFlight, g \in GridSizeOptions : \E data \in RunsTried(g) :
       Response2(i, g, data)

SpecRecord == Init /\ [][NextRecord]_vars

\* One-lane loads whose responses are the runs of AveragedRuns, and restores
\* of their entries
NextAverage ==
  \/ RunNewGame
  \/ \E i \in 1..MaxInFlight, g \in GridSizeOptions : \E data \in AveragedRuns(g) :
       Response1(i, g, data)
  \/ \E i \in 1..MaxHistory : RestoreGrid1(i)

SpecAverage == Init /\ [][NextAverage]_vars

\* The startup ping settling while games are loaded and played at the grid
\* size as mounted
NextPing ==
  \/ Pinging
  \/ ToggleGrid
  \/ PlayerControls
  \/ Loading

SpecPing == Init /\ [][NextPing]_vars

\* One-lane loads of long games at every grid size, with the grid-size
\* select and the manual steps that bring each snapshot on screen
NextGrid ==
  \/ \E value \in GridSizeOptions : GridSizeChange(value)
  \/ RunNewGame
  \/ \E i \in 1..MaxInFlight, g \in GridSizeOptions : Response1(i, g, Grown(g))
  \/ Back
  \/ Forward

SpecGrid == Init /\ [][NextGrid]_vars

\* The player controls, the loads and the Add/Remove Grid button at the grid
\* size as mounted, with an interval that keeps firing while it is scheduled
\* (setInterval repeats its callback until clearInterval)
NextClock ==
  \/ ToggleGrid
  \/ PlayerControls
  \/ Loading

SpecClock == Init /\ [][NextClock]_vars /\ WF_vars(Tick)

\* the training budgets the user of SpecEntry selects
EpsTried == {"3k", "75k"}

\* Loads of one or two lanes while the agent and training budget of lane 1,
\* the grid size and the second lane are changed; lane 2 keeps the a* agent,
\* and every request gets one response (the full-length run for the first
\* request, a one-snapshot run for the second)
NextEntry ==
  \/ \E value \in AgentOptions : AgentChange(1, value)
  \/ \E value \in EpsTried : EpsChange(1, value)
  \/ \E value \in GridSizesTried : GridSizeChange(value)
  \/ ToggleGrid
  \/ RunNewGame
  \/ \E i \in 1..MaxInFlight, g \in GridSizeOptions :
       Response1(i, g, Run(g, MaxRunLen, TRUE))
  \/ \E i \in 1..MaxInFlight, g \in GridSizeOptions :
       Response2(i, g, Run(g, 1, FALSE))

SpecEntry == Init /\ [][NextEntry]_vars

----------------------------------------------------------------------------
(* Claims                                                                  *)

\* the ledger row the last restore copied
restored == tableRes[last.arg]

\* C1: every tick of the auto-play timer advances the cursor by exactly 1 and
\* keeps the clock Playing while the cursor is below the ceiling of the
\* CURRENT lanes (max of their lengths, minus 1), stops the clock and leaves
\* the cursor where it is when the cursor equals that ceiling, and never
\* leaves the cursor above it.
C1_TickFollowsCurrentCeiling ==
  last.op = "tick" =>
    /\ (last.read < maxStep) => (timeStep = last.read + 1 /\ playing)
    /\ (last.read = maxStep) => (timeStep = last.read /\ ~playing)
    /\ timeStep <= maxStep

\* C2: a lane that holds snapshots holds a run requested for (or recorded
\* with) the grid dimension it is rendered with.
C2_LanesMatchGridSize ==
  /\ gameStates1 # <<>> => reqSize1 = gridSize
  /\ gameStates2 # <<>> => reqSize2 = gridSize

\* C3: a restore (into either lane) of an entry whose replaySize differs from
\* the gridSize it finds leaves gridSize equal to the entry's replaySize and
\* both lanes equal to the entry's replay.
C3_RestoreAcrossSizes ==
  (last.op \in {"restore1", "restore2"} /\ last.read # restored.replaySize) =>
    /\ gridSize = restored.replaySize
    /\ gameStates1 = restored.replay
    /\ gameStates2 = restored.replay

\* a restore into grid 2 found another gridSize and overwrote both lanes
C3_Witness ==
  /\ last.op = "restore2"
  /\ last.read # restored.replaySize
  /\ gridSize = restored.replaySize
  /\ gameStates1 = restored.replay
  /\ gameStates2 = restored.replay
  /\ restored.replay # <<>>

\* C4: after a restore and the effects it triggers, the target lane's agent
\* code and training label are the entry's agentCode and train.
C4_RestoreCopiesConfig ==
  /\ last.op = "restore1" => (agent1 = restored.agentCode /\ eps1 = restored.train)
  /\ last.op = "restore2" => (agent2 = restored.agentCode /\ eps2 = restored.train)

\* C5: a change of a lane's agent, training budget or seed, of the grid
\* dimension, and a toggle of the second lane each leave both lanes empty, the
\* cursor 0 and the clock Stopped.
C5_ControlChangesClear ==
  (\/ last.op \in {"agent", "eps", "gridSize", "toggleGrid"}
   \/ last.op = "seed" /\ last.read.seed # (IF last.arg = 1 THEN seed1 ELSE seed2)) =>
    /\ gameStates1 = <<>>
    /\ gameStates2 = <<>>
    /\ timeStep = 0
    /\ ~playing

\* C6: while a request of some loadNewGame invocation is outstanding, the
\* loading indicator is on.
C6_LoadingWhileOutstanding == Len(loads) > 0 => loading

\* C7: at most one loadNewGame invocation is in flight.
C7_OneLoadInFlight == Len(loads) <= 1

\* C8: the clock goes from Stopped to Playing (by Play, or at the end of a
\* load) only with lane 1 non-empty and the cursor below the ceiling; a Play
\* in any other state leaves the clock Stopped.
C8_PlayingOnlyBelowCeiling ==
  /\ (last.op = "play" /\ playing) =>
       (gameStates1 # <<>> /\ timeStep < maxStep)
  /\ (last.op = "play" /\ ~(gameStates1 # <<>> /\ timeStep < maxStep)) =>
       ~playing
  /\ (last.op \in {"response1", "response2"} /\ last.read = FALSE /\ playing) =>
       (gameStates1 # <<>> /\ timeStep < maxStep)

\* C9: Forward moves the cursor up by 1 exactly when it is below the ceiling
\* and leaves it otherwise, Back moves it down by 1 exactly when it is above 0
\* and leaves it otherwise, and the cursor is never negative.
C9_ManualSteps ==
  /\ last.op = "forward" =>
       timeStep = (IF last.read < maxStep THEN last.read + 1 ELSE last.read)
  /\ last.op = "back" =>
       timeStep = (IF last.read > 0 THEN last.read - 1 ELSE last.read)
  /\ timeStep >= 0

\* Forward found the cursor at the end of lane 1, below the end of the longer
\* lane 2, and moved it up by 1
C9_Witness ==
  /\ last.op = "forward"
  /\ gameStates1 # <<>>
  /\ Len(gameStates2) > Len(gameStates1)
  /\ last.read = Len(gameStates1) - 1
  /\ timeStep = last.read + 1

\* C10: pause, Forward, Back, Restart, every handler that calls resetBoard and
\* both restores leave the clock Stopped.
C10_StoppingActions ==
  last.op \in {"pause", "forward", "back", "restart", "agent", "eps",
               "gridSize", "toggleGrid", "restore1", "restore2"} =>
    (~playing /\ timer = NoTimer)

\* the clock was Playing and Pause stopped it before the run's end
C10_Witness ==
  /\ last.op = "pause"
  /\ ~playing
  /\ timer = NoTimer
  /\ timeStep < maxStep

\* C11: at most one interval of the auto-play effect is scheduled in every
\* reachable state, every tick leaves the cursor where it is or moves it up by
\* exactly 1, and a speed change leaves the clock state and the cursor as it
\* found them.
C11_SpeedReplacesTimer ==
  /\ scheduled <= 1
  /\ last.op = "tick" => timeStep \in {last.read, last.read + 1}
  /\ last.op = "speed" =>
       (playing = last.read.playing /\ timeStep = last.read.timeStep)

\* the speed went from 1x to 4x while Playing: one interval of 125 ms is
\* scheduled, the clock is Playing and the cursor is where it was
C11_Witness ==
  /\ last.op = "speed"
  /\ last.read.playing
  /\ playing
  /\ speed = 4
  /\ scheduled = 1
  /\ timer # NoTimer
  /\ timer.intervalMs = 125
  /\ timeStep = last.read.timeStep

\* C12: while the clock is Stopped no tick of the auto-play timer changes the
\* cursor.
C12_NoTickWhileStopped ==
  [][(~playing /\ last'.op = "tick") => timeStep' = timeStep]_vars

\* Back stopped the clock below the ceiling after the timer had moved the
\* cursor up: no interval is left scheduled
C12_Witness ==
  /\ last.op = "back"
  /\ last.read = 1
  /\ timeStep = 0
  /\ maxStep >= 1
  /\ ~playing
  /\ scheduled = 0
  /\ timer = NoTimer

\* C13: every step leaves the ledger as it is or puts new entries in front of
\* it: the existing entries keep their fields and their relative order.
C13_LedgerAppendOnly ==
  [][\E k \in 0..2 :
       /\ Len(tableRes') = Len(tableRes) + k
       /\ SubSeq(tableRes', k + 1, Len(tableRes')) = tableRes]_vars

\* a later load (of another grid size) and a restore of the older row: the
\* older entry is still in the ledger, below the newer one
C13_Witness ==
  /\ Len(tableRes) = 2
  /\ tableRes[1].replaySize # tableRes[2].replaySize
  /\ last.op = "restore1"
  /\ last.arg = 2
  /\ gameStates1 = tableRes[2].replay

\* C14: every ledger entry is computed from the last snapshot of its run of
\* n >= 1 snapshots: moveCount = n - 1, finalLength = the body cells of the
\* last snapshot, fruitCount = finalLength - 1, outcome "Won" exactly when the
\* last snapshot's won flag is set; a 2-snapshot run ending in snake [12, 11],
\* won false, died true is recorded as 1 move, 1 fruit, length 2, "Lost".
C14_EntryFromTerminalSnapshot ==
  \A r \in 1..Len(tableRes) :
    LET entry == tableRes[r]
        n == Len(entry.replay)
        terminal == entry.replay[n]
    IN /\ n >= 1
       /\ entry.moveCount = n - 1
       /\ entry.finalLength = Len(terminal.snake)
       /\ entry.fruitCount = entry.finalLength - 1
       /\ entry.outcome = (IF terminal.won THEN "Won" ELSE "Lost")
       /\ (n = 2 /\ terminal.snake = <<12, 11>> /\ ~terminal.won /\ terminal.died) =>
            /\ entry.moveCount = 1
            /\ entry.fruitCount = 1
            /\ entry.finalLength = 2
            /\ entry.outcome = "Lost"

\* the newest entry records a 2-snapshot run that ends in snake [12, 11],
\* died; the entry below it a 2-snapshot run that ends won with one body cell
C14_Witness ==
  /\ Len(tableRes) = 2
  /\ Len(tableRes[1].replay) = 2
  /\ tableRes[1].replay[2].snake = <<12, 11>>
  /\ tableRes[1].replay[2].died
  /\ tableRes[1].outcome = "Lost"
  /\ tableRes[1].fruitCount = 1
  /\ Len(tableRes[2].replay) = 2
  /\ tableRes[2].replay[2].won
  /\ tableRes[2].finalLength = 1
  /\ tableRes[2].outcome = "Won"

\* C15: a toggle of the second lane leaves both lanes empty, and lane 2 is
\* then populated by a load only if that load was started after the last
\* toggle.
C15_NoStaleRunAfterToggle ==
  /\ last.op = "toggleGrid" => (gameStates1 = <<>> /\ gameStates2 = <<>>)
  /\ (last.op = "response2" /\ gameStates2 # <<>>) => last.arg = 0

\* the training label is one the episode select of the agent offers ("N/A"
\* exactly for a*)
ValidEps(agent, eps) ==
  IF agent = "a*" THEN eps = "N/A"
  ELSE IF IncludesDeep(agent) THEN eps \in {"1k", "3k", "5k"}
  ELSE eps \in {"50k", "75k", "100k"}

\* C16: in every reachable state the training label of each lane is valid
\* for the lane's agent: "N/A" exactly for a*, one of 1k/3k/5k for a deep
\* agent, one of 50k/75k/100k for any other agent.
C16_EpsValidForAgent ==
  /\ ValidEps(agent1, eps1)
  /\ ValidEps(agent2, eps2)

\* C17: while the second lane is off, the ceiling (maxStep) is lane 1's
\* length minus one and the cursor is not beyond lane 1's last snapshot.
C17_CeilingOfActiveLanes ==
  ~twoGrids =>
    /\ maxStep = Len(gameStates1) - 1
    /\ timeStep <= Max(Len(gameStates1) - 1, 0)

\* C18: for every cursor >= 0 and each lane, the index the lane is rendered
\* at is min(cursor, length - 1); for a non-empty lane it lies in
\* 0..length - 1, and a render of an empty lane reads no snapshot.
C18_RenderIndex ==
  \A gameStates \in {gameStates1, gameStates2} :
    \A t \in (0..MaxRunLen + 1) \cup {timeStep} :
      /\ t >= 0
      /\ effectiveStep(t, gameStates) =
            (IF t <= Len(gameStates) - 1 THEN t ELSE Len(gameStates) - 1)
      /\ gameStates # <<>> =>
            /\ effectiveStep(t, gameStates) \in 0..Len(gameStates) - 1
            /\ GridReads(t, gameStates) \subseteq 0..Len(gameStates) - 1
      /\ gameStates = <<>> => GridReads(t, gameStates) = {}

\* the cursor is past the end of lane 1 (lane 2 is longer): lane 1 is
\* rendered at its last snapshot
C18_Witness ==
  /\ twoGrids
  /\ gameStates1 # <<>>
  /\ timeStep >= Len(gameStates1)
  /\ timeStep < Len(gameStates2)
  /\ effectiveStep(timeStep, gameStates1) = Len(gameStates1) - 1
  /\ GridReads(timeStep, gameStates1) = {Len(gameStates1) - 1}

\* ^(0|[1-9][0-9]{0,2})$
SeedPattern(s) ==
  \/ s = <<"0">>
  \/ /\ Len(s) \in 1..3
     /\ s[1] \in {"1", "2", "3", "4", "5", "6", "7", "8", "9"}
     /\ \A i \in 2..Len(s) :
          s[i] \in {"0", "1", "2", "3", "4", "5", "6", "7", "8", "9"}

\* C19: the seed of each lane is the empty string or matches
\* ^(0|[1-9][0-9]{0,2})$; a change event whose candidate is neither empty nor
\* of that form leaves the seed as it was, any other candidate becomes the
\* seed.
C19_SeedAccepted ==
  /\ \A seed \in {seed1, seed2} : seed = <<>> \/ SeedPattern(seed)
  /\ last.op = "seed" =>
       LET seed == IF last.arg = 1 THEN seed1 ELSE seed2
       IN  seed = (IF last.read.value = <<>> \/ SeedPattern(last.read.value)
                   THEN last.read.value ELSE last.read.seed)

\* with seed 999 accepted, the candidate 1000 was rejected: the seed is
\* still 999
C19_Witness ==
  /\ last.op = "seed"
  /\ last.arg = 1
  /\ last.read.seed = <<"9", "9", "9">>
  /\ last.read.value = <<"1", "0", "0", "0">>
  /\ seed1 = <<"9", "9", "9">>

\* C20: a loadNewGame invocation that ends at a rejected request, or at a
\* response without snapshots, leaves the loading indicator, both lanes, the
\* cursor and the clock as they are, and has put no entry into the ledger.
C20_FailedLoadChangesNothing ==
  [][last'.op = "loadFails" =>
       /\ UNCHANGED <<loading, gameStates1, gameStates2, timeStep, playing,
                      tableRes>>
       /\ last'.read = 0]_vars

\* C21: a restore into lane 2 leaves the second lane active whether or not it
\* was active before, and a restore into lane 1 leaves twoGrids as it was.
C21_RestoreActivatesLane2 ==
  /\ last.op = "restore2" => twoGrids
  /\ last.op = "restore1" => twoGrids = last.twoGrids

\* a restore into lane 2 found the second lane off and left it on
C21_Witness ==
  /\ last.op = "restore2"
  /\ ~last.twoGrids
  /\ twoGrids
  /\ gameStates2 = restored.replay

\* C22: the step in which a loadNewGame invocation ends successfully leaves
\* the cursor 0, the clock Playing and the loading indicator off and puts
\* exactly one entry in front of the ledger.  For an invocation started with
\* the second lane off, lane 1 is the response (the replay of the new entry)
\* and lane 2 is as it was; for one started with the second lane on, lane 1
\* is the first response, lane 2 the second response (the replay of the new
\* entry), and the entry of the first response is in the ledger behind it.
\* Every response adds exactly one entry.
C22_LoadCompletes ==
  [][/\ last'.op \in {"response1", "response2"} =>
          /\ Len(tableRes') = Len(tableRes) + 1
          /\ Tail(tableRes') = tableRes
     /\ \A i \in 1..Len(loads) :
          (last'.op \in {"response1", "response2"} /\ loads' = RemoveAt(loads, i)) =>
            /\ timeStep' = 0
            /\ playing'
            /\ ~loading'
            /\ IF loads[i].twoGrids
               THEN /\ last'.op = "response2"
                    /\ gameStates1' = loads[i].data1
                    /\ gameStates2' = tableRes'[1].replay
                    /\ tableRes'[1].agentCode = loads[i].agent2
                    /\ \E r \in 2..Len(tableRes') :
                         /\ tableRes'[r].replay = loads[i].data1
                         /\ tableRes'[r].agentCode = loads[i].agent1
               ELSE /\ last'.op = "response1"
                    /\ gameStates1' = tableRes'[1].replay
                    /\ tableRes'[1].agentCode = loads[i].agent1
                    /\ gameStates2' = gameStates2]_vars

\* a two-lane load has ended: lane 2 holds the second response (newest
\* entry), lane 1 the shorter first response (the entry behind it), the
\* cursor is 0, the clock Playing and the loading indicator off
C22_Witness ==
  /\ last.op = "response2"
  /\ Len(tableRes) = 2
  /\ gameStates2 = tableRes[1].replay
  /\ gameStates1 = tableRes[2].replay
  /\ Len(gameStates1) < Len(gameStates2)
  /\ timeStep = 0
  /\ playing
  /\ ~loading
  /\ loads = <<>>

\* C23: whenever the ledger holds the entry of the lane-1 run of an
\* invocation (the invocation is past its first response), lane 1 holds that
\* run's snapshot sequence.
C23_LanePopulatedBeforeRecorded ==
  \A i \in 1..Len(loads) :
    loads[i].stage = 2 =>
      /\ \E r \in 1..Len(tableRes) : tableRes[r].replay = loads[i].data1
      /\ gameStates1 = loads[i].data1

\* the suspended invocations without the history field
Requests(ls) == [k \in 1..Len(ls) |-> [ls[k] EXCEPT !.toggled = FALSE]]

\* C24: a change of agent, training budget, grid dimension or second-lane
\* toggle leaves every suspended loadNewGame invocation suspended with the
\* request and stage it had; and when, right after such a change has cleared
\* the lanes, a response ends an invocation, lane 1 receives the run, the
\* ledger gets the run's entry in front, the cursor is 0 and the clock is
\* Playing.
C24_ChangeDoesNotCancelLoad ==
  [][/\ last'.op \in {"agent", "eps", "gridSize", "toggleGrid"} =>
          Requests(loads') = Requests(loads)
     /\ (/\ last.op \in {"agent", "eps", "gridSize", "toggleGrid"}
         /\ last'.op \in {"response1", "response2"}
         /\ Len(loads') < Len(loads)) =>
          /\ gameStates1 = <<>>
          /\ gameStates2 = <<>>
          /\ gameStates1' # <<>>
          /\ tableRes' = <<tableRes'[1]>> \o tableRes
          /\ tableRes'[1].replay \in {gameStates1', gameStates2'}
          /\ timeStep' = 0
          /\ playing']_vars

\* a run requested for one grid dimension was written into lane 1 after the
\* dimension had been changed: the ledger has its entry, the cursor is 0 and
\* the clock is Playing
C24_Witness ==
  /\ last.op = "response1"
  /\ gameStates1 # <<>>
  /\ reqSize1 # gridSize
  /\ tableRes # <<>>
  /\ tableRes[1].replay = gameStates1
  /\ tableRes[1].replaySize = reqSize1
  /\ timeStep = 0
  /\ playing

\* C25: the entry a response puts into the ledger carries the agent, the
\* training budget and the grid dimension of the request the response
\* answers (those of the invocation's closure, whatever the selectors show by
\* then), its replay is a run on a grid of that dimension, and its labels are
\* derived from these fields.
C25_EntrySelfConsistent ==
  [][last'.op \in {"response1", "response2"} =>
       \E i \in 1..Len(loads) :
         LET entry == tableRes'[1]
             first == last'.op = "response1"
         IN /\ loads[i].stage = (IF first THEN 1 ELSE 2)
            /\ \/ loads' = RemoveAt(loads, i)
               \/ loads' = [loads EXCEPT ![i].stage = 2, ![i].data1 = entry.replay]
            /\ entry.agentCode = (IF first THEN loads[i].agent1 ELSE loads[i].agent2)
            /\ entry.train = (IF first THEN loads[i].eps1 ELSE loads[i].eps2)
            /\ entry.replaySize = loads[i].gridSize
            /\ \A k \in 1..Len(entry.replay) :
                 entry.replay[k].fruit = 2 * entry.replaySize + 1
            /\ entry.gridSize = <<entry.replaySize - 2, "x", entry.replaySize - 2>>
            /\ entry.agent = nameMap(entry.agentCode)]_vars

\* the response of a request sent for the Deep QL agent with 3k episodes
\* arrived after the agent and the grid size had been changed: the entry
\* carries the agent, budget and dimension of the request
C25_Witness ==
  /\ last.op = "response1"
  /\ tableRes # <<>>
  /\ tableRes[1].agentCode = "deep-ql"
  /\ tableRes[1].train = "3k"
  /\ agent1 = "apx-ql"
  /\ eps1 = "75k"
  /\ tableRes[1].replaySize # gridSize
  /\ tableRes[1].replay[1].fruit = 2 * tableRes[1].replaySize + 1
  /\ gameStates1 = tableRes[1].replay

\* C26: auto-play terminates: in every behaviour in which the interval keeps
\* firing and, from some point on, no step other than a tick occurs (no user
\* action, no response), the clock is Stopped from some point on for good.
C26_AutoPlayTerminates == <>[][Tick]_vars => <>[](~playing)

\* the timer moved the cursor to the ceiling of a run of several snapshots
\* and its next tick stopped the clock
C26_Witness ==
  /\ last.op = "tick"
  /\ last.read = timeStep
  /\ timeStep = maxStep
  /\ timeStep >= 1
  /\ ~playing
  /\ timer = NoTimer
  /\ scheduled = 0

\* C27: a restore of an entry whose replaySize is the gridSize it finds
\* writes the entry's replay into the target lane and resets the cursor to 0;
\* it leaves the other lane's snapshot sequence, agent and training label,
\* both seeds, the grid size and the ledger as they were.
C27_SameSizeRestoreFrame ==
  [][/\ (last'.op = "restore1" /\ gridSize = tableRes[last'.arg].replaySize) =>
          /\ gameStates1' = tableRes[last'.arg].replay
          /\ timeStep' = 0
          /\ UNCHANGED <<gameStates2, agent2, eps2, seed1, seed2, gridSize,
                         tableRes>>
     /\ (last'.op = "restore2" /\ gridSize = tableRes[last'.arg].replaySize) =>
          /\ gameStates2' = tableRes[last'.arg].replay
          /\ timeStep' = 0
          /\ UNCHANGED <<gameStates1, agent1, eps1, seed1, seed2, gridSize,
                         tableRes>>]_vars

\* an entry of the current grid size was restored into lane 1: lane 1 holds
\* its replay, lane 2 still holds another, longer run, and the cursor is 0
C27_Witness ==
  /\ last.op = "restore1"
  /\ last.read = restored.replaySize
  /\ gridSize = restored.replaySize
  /\ gameStates1 = restored.replay
  /\ gameStates2 # <<>>
  /\ Len(gameStates2) > Len(gameStates1)
  /\ timeStep = 0
  /\ Len(tableRes) = 2

\* C28: for the grid of lane 1 and every cell i of 0..gridSize*gridSize - 1:
\* the cell is a wall exactly when its row or column is 0 or gridSize - 1; a
\* cell that is no wall is the target exactly when the lane is non-empty and
\* i is the fruit of the snapshot shown; the cell is drawn as body exactly
\* when the lane is non-empty and i is in the snake list of the snapshot
\* shown; and for an empty lane no cell is body or target.
C28_CellClassification ==
  LET g == gridSize
      shown == gameStates1[effectiveStep(timeStep, gameStates1) + 1]
  IN  /\ g \in {5, 7, 9}
      /\ \A i \in 0..g * g - 1 :
           /\ cellClass(g, timeStep, gameStates1, i) = "wall" <=>
                (i < g \/ i >= g * (g - 1) \/ i % g = 0 \/ i % g = g - 1)
           /\ cellClass(g, timeStep, gameStates1, i) # "wall" =>
                (cellClass(g, timeStep, gameStates1, i) = "fruit" <=>
                   (gameStates1 # <<>> /\ i = shown.fruit))
           /\ cellStyle(g, timeStep, gameStates1, i) = "snake" <=>
                (gameStates1 # <<>> /\ \E j \in 1..Len(shown.snake) : shown.snake[j] = i)
           /\ gameStates1 = <<>> =>
                /\ cellClass(g, timeStep, gameStates1, i) # "fruit"
                /\ cellStyle(g, timeStep, gameStates1, i) = "none"

\* C29: the indicator shows "Live" (serverAwake) only once the startup ping
\* has completed successfully; while the ping is outstanding and after it
\* has failed, serverAwake is false.
C29_LiveOnlyAfterPing == serverAwake => ping = "resolved"

\* C30 as stated: the recorded average of an entry with fruitCount >= 1 is
\* moveCount / fruitCount rounded to 3 decimals (a quotient half-way between
\* two thousandths goes to the upper one), 30 moves for 3 fruits give 10.000,
\* and an entry with fruitCount = 0 has an average (the division does not
\* fail).
C30_AverageIsRoundedQuotient ==
  \A r \in 1..Len(tableRes) :
    LET entry == tableRes[r]
        m == entry.moveCount
        f == entry.fruitCount
    IN /\ f >= 1 =>
            /\ entry.avgMove.e9 = 0
            /\ 2000 * m - f < 2 * f * entry.avgMove.milli
            /\ 2 * f * entry.avgMove.milli <= 2000 * m + f
       /\ (m = 30 /\ f = 3) => entry.avgMove.milli = 10000
       /\ f = 0 => entry.avgMove = [e9 |-> m, milli |-> 0]

\* C30 as amended: the recorded average of an entry with fruitCount >= 1 is
\* the thousandth nearest to moveCount / fruitCount, and the lower one when
\* the quotient is half-way between two thousandths (19 moves for 16 fruits,
\* 1.1875, are recorded as 1.187); 30 moves for 3 fruits give 10.000; an
\* entry with fruitCount = 0 has an average (moveCount * 1e9).
C30_AverageTiesDown ==
  \A r \in 1..Len(tableRes) :
    LET entry == tableRes[r]
        m == entry.moveCount
        f == entry.fruitCount
    IN /\ f >= 1 =>
            /\ entry.avgMove.e9 = 0
            /\ 2000 * m - f <= 2 * f * entry.avgMove.milli
            /\ 2 * f * entry.avgMove.milli < 2000 * m + f
       /\ (m = 19 /\ f = 16) => entry.avgMove.milli = 1187
       /\ (m = 30 /\ f = 3) => entry.avgMove.milli = 10000
       /\ f = 0 => entry.avgMove = [e9 |-> m, milli |-> 0]

\* the ledger holds a run of 19 moves and 16 fruits recorded as 1.187 above
\* a run of 30 moves and 3 fruits recorded as 10.000
C30_Witness ==
  /\ Len(tableRes) = 2
  /\ tableRes[1].moveCount = 19
  /\ tableRes[1].fruitCount = 16
  /\ tableRes[1].finalLength = 17
  /\ tableRes[1].avgMove = [e9 |-> 0, milli |-> 1187]
  /\ tableRes[2].moveCount = 30
  /\ tableRes[2].fruitCount = 3
  /\ tableRes[2].avgMove = [e9 |-> 0, milli |-> 10000]

====
